---- MODULE Spec2Model ----
(***************************************************************************)
(* A model of the describe_err crate (src/src/lib.rs): the wrapper         *)
(* Described<E>, its accessors, its derived Display and Error::source, the *)
(* closure factory describe and the macro describing!.                     *)
(*                                                                         *)
(* Strings are sequences of one-character strings, so that concatenation,  *)
(* comparison and the stringification of source text are computed and not  *)
(* assumed.  A client program drives the library: it maps fresh results    *)
(* through describe, re-describes the result it holds (nesting wrappers),  *)
(* runs describing! at call sites, calls the accessors of the wrapper it   *)
(* holds and walks the source chain from it.                               *)
(***************************************************************************)
EXTENDS Integers, Sequences, FiniteSets, TLC

VARIABLES
    res,        \* the Result the client holds (None before the first call)
    given,      \* what the call that produced res was given
    built,      \* the errors of res in order of construction: base, wrappers
    out,        \* what the last call on the held wrapper returned
    nOps,       \* calls made on the held wrapper since it was built
    cursor,     \* the source-chain walk: Option of the error it stands on
    steps,      \* number of source() steps the walk has taken
    calls,      \* times the wrapped expression ran in the last describing!
    prevFail    \* the latest failing describing! execution before this call

vars == <<res, given, built, out, nOps, cursor, steps, calls, prevFail>>

(***************************************************************************)
(* Bounds                                                                  *)
(***************************************************************************)
\* most wrappers nested around one base error
MaxDepth == 2
\* most calls tracked on one wrapper instance
MaxOps == 2

(***************************************************************************)
(* Option and Result                                                       *)
(***************************************************************************)
None == [tag |-> "None"]
Some(v) == [tag |-> "Some", val |-> v]
Ok(v) == [tag |-> "Ok", val |-> v]
Err(e) == [tag |-> "Err", val |-> e]

(***************************************************************************)
(* Text                                                                    *)
(***************************************************************************)
Empty == << >>
ColonSpace == <<":", " ">>
InnerError == <<"I","n","n","e","r"," ","e","r","r","o","r">>
ProducedInTest ==
    <<"P","r","o","d","u","c","e","d"," ","i","n"," ","t","e","s","t">>
ReturnsErrText == <<"r","e","t","u","r","n","s","_","e","r","r","(",")">>
\* the same call written with a blank between the parentheses
ReturnsErrSpaced == <<"r","e","t","u","r","n","s","_","e","r","r","("," ",")">>
SyncAllText == <<"f",".","s","(",")">>
SyncAllSpaced == <<"f"," ",".","s","(",")">>

(***************************************************************************)
(* Errors: the E of Described<E>.  A leaf has a message and its own source *)
(***************************************************************************)
Leaf(msg, cause) == [tag |-> "Leaf", msg |-> msg, cause |-> cause]
IoOther == Leaf(InnerError, None)
IoFull == Leaf(<<"n","o",":"," ","x">>, None)
Chained == Leaf(<<"u","p">>, Some(IoOther))
BaseErrors == {IoOther, IoFull, Chained}
OkValues == {"unit", "file"}

\* a description argument: impl Into<String>, a literal or an owned string
Lit(s) == [kind |-> "str", chars |-> s]
Owned(s) == [kind |-> "String", chars |-> s]
Descriptions == {Lit(Empty), Lit(ProducedInTest), Owned(<<"a", ":", " ">>)}

\* description.into(): a &str is copied byte by byte, a String is moved
IntoString(description) ==
    IF description.kind = "str"
    THEN [i \in 1..Len(description.chars) |-> description.chars[i]]
    ELSE description.chars

(***************************************************************************)
(* describe and the closure it returns                                     *)
(***************************************************************************)
describe_reject_empty(description) ==
    [description |-> IF IntoString(description) = Empty
                     THEN <<"?">> ELSE IntoString(description)]

\* let description = description.into(); the closure captures it by value
describe(description) == [description |-> IntoString(description)]

call_once_drop_cause(closure, original) ==
    [tag |-> "Described", description |-> closure.description,
     original |-> IF original.tag = "Leaf" THEN Leaf(original.msg, None)
                  ELSE original]

\* |original| Described { description, original }
call_once(closure, original) ==
    [tag |-> "Described", description |-> closure.description,
     original |-> original]

map_err_on_ok(self, op) ==
    IF self.tag = "Err" THEN Err(call_once(op, self.val)) ELSE Ok("unit")

\* Result::map_err: Ok is passed on untouched, Err(e) becomes Err(op(e))
map_err(self, op) ==
    IF self.tag = "Err" THEN Err(call_once(op, self.val)) ELSE self

(***************************************************************************)
(* Described: accessors, Display, Error::source                            *)
(***************************************************************************)
RECURSIVE to_string(_)

description(self) == self.description

original(self) == self.original

Described_fmt_no_space(self) ==
    self.description \o <<":">> \o to_string(self.original)

\* #[error("{description}: {original}")]
Described_fmt(self) ==
    self.description \o ColonSpace \o to_string(self.original)

\* Display of any error value: a leaf prints its message
to_string(e) == IF e.tag = "Described" THEN Described_fmt(e) ELSE e.msg

Described_source_none(self) == None

Described_source_skip(self) ==
    IF self.original.tag = "Described" THEN Some(self.original.original)
    ELSE Some(self.original)

\* #[source] original
Described_source(self) == Some(self.original)

\* Error::source of any error value
source(e) == IF e.tag = "Described" THEN Described_source(e) ELSE e.cause

RECURSIVE Depth(_)
Depth(e) == IF e.tag = "Described" THEN 1 + Depth(e.original) ELSE 0

RECURSIVE ChainLen(_)
\* number of errors below a leaf in its own source chain
ChainLen(e) == IF e.cause.tag = "None" THEN 0 ELSE 1 + ChainLen(e.cause.val)

(***************************************************************************)
(* describing!                                                             *)
(***************************************************************************)
\* the call sites of describing!: a name for the place, the expression as
\* written there and the function the expression calls
CallSites ==
    { [id |-> "macro_err", text |-> ReturnsErrText,   callee |-> "returns_err"],
      [id |-> "spaced",    text |-> ReturnsErrSpaced, callee |-> "returns_err"],
      [id |-> "sync_a",    text |-> SyncAllText,      callee |-> "sync_all"],
      [id |-> "sync_b",    text |-> SyncAllText,      callee |-> "sync_all"],
      [id |-> "sync_c",    text |-> SyncAllSpaced,    callee |-> "sync_all"] }

\* what the call meets at run time
Runtimes == {"good", "full", "flaky"}

\* One evaluation of the expression of a call site.  env counts the runs of
\* the called function (its side effect); a flaky device fails the first
\* time only.  returns_err always fails with "Inner error".
Eval(site, rt, env) ==
    [result |->
        IF site.callee = "returns_err" THEN Err(IoOther)
        ELSE IF rt = "full" THEN Err(IoFull)
        ELSE IF rt = "flaky" /\ env = 0 THEN Err(IoOther)
        ELSE Ok("unit"),
     env |-> env + 1]

stringify_verbatim(tokens) == tokens

\* stringify!($expr): the expression printed back from its tokens.  The
\* blanks of the source are not tokens; between the tokens of a path, a
\* method call and an empty argument list the printer puts none.
stringify(tokens) == SelectSeq(tokens, LAMBDA c : c # " ")

describing_twice(site, rt, env) ==
    LET first == Eval(site, rt, env)
        expr == Eval(site, rt, first.env)
    IN  [result |-> map_err(expr.result, describe(Lit(stringify(site.text)))),
         env |-> expr.env]

describing_runtime(site, rt, env) ==
    LET expr == Eval(site, rt, env)
    IN  [result |->
            IF expr.result.tag = "Err"
            THEN map_err(expr.result,
                    describe(Lit(stringify(site.text)
                                 \o to_string(expr.result.val))))
            ELSE expr.result,
         env |-> expr.env]

\* let expr: Result<_, _> = $expr;
\* expr.map_err($crate::describe(stringify!($expr)))
describing(site, rt, env) ==
    LET expr == Eval(site, rt, env)
    IN  [result |-> map_err(expr.result, describe(Lit(stringify(site.text)))),
         env |-> expr.env]

(***************************************************************************)
(* The client program                                                      *)
(***************************************************************************)
NoSite == [id |-> "none", text |-> Empty, callee |-> "none"]

NoCall == [op |-> "none", val |-> None]

\* how: which call built res; d: the description handed to describe;
\* input: the Result that was mapped; site, rt: the describing! call
Given(how, d, input, site, rt) ==
    [how |-> how, d |-> d, input |-> input, site |-> site, rt |-> rt]

\* the record of the execution that produced res, when it is a failing
\* describing!; otherwise the record kept so far
NextPrevFail ==
    IF given.how = "describing" /\ res.tag = "Err"
    THEN Some([id |-> given.site.id, text |-> given.site.text,
               rt |-> given.rt,
               description |-> res.val.description,
               original |-> res.val.original])
    ELSE prevFail

\* a fresh result starts a fresh instance: nothing called on it, the walk
\* standing on the error itself
Fresh(r) ==
    /\ res' = r
    /\ out' = NoCall
    /\ nOps' = 0
    /\ cursor' = IF r.tag = "Err" THEN Some(r.val) ELSE None
    /\ steps' = 0
    /\ prevFail' = NextPrevFail

Init ==
    /\ res = None
    /\ given = Given("none", Lit(Empty), None, NoSite, "good")
    /\ built = << >>
    /\ out = NoCall
    /\ nOps = 0
    /\ cursor = None
    /\ steps = 0
    /\ calls = 0
    /\ prevFail = None

\* r.map_err(describe(d)) on a result r of some fallible operation
MapErrDescribe(d, r) ==
    /\ Fresh(map_err(r, describe(d)))
    /\ given' = Given("describe", d, r, NoSite, "good")
    /\ built' = IF r.tag = "Err" THEN <<r.val, res'.val>> ELSE << >>
    /\ calls' = 0

\* res.map_err(describe(d)) on the result held: a wrapper around a wrapper
Redescribe(d) ==
    /\ res.tag \in {"Ok", "Err"}
    /\ res.tag = "Err" => Depth(res.val) < MaxDepth
    /\ Fresh(map_err(res, describe(d)))
    /\ given' = Given("describe", d, res, NoSite, "good")
    /\ built' = IF res.tag = "Err" THEN Append(built, res'.val) ELSE << >>
    /\ calls' = 0

\* describing!(expr) at a call site
Describing(site, rt) ==
    LET run == describing(site, rt, 0)
        expr == Eval(site, rt, 0).result
    IN  /\ Fresh(run.result)
        /\ given' = Given("describing", Lit(stringify(site.text)), expr,
                           site, rt)
        /\ built' = IF expr.tag = "Err" THEN <<expr.val, res'.val>> ELSE << >>
        /\ calls' = run.env

Holding == res.tag = "Err" /\ res.val.tag = "Described"

Call_take(op, val) ==
    /\ Holding
    /\ nOps < MaxOps
    /\ out' = [op |-> op, val |-> val]
    /\ nOps' = nOps + 1
    /\ res' = IF op = "description"
              THEN Err([res.val EXCEPT !.description = Empty]) ELSE res
    /\ UNCHANGED <<given, built, cursor, steps, calls, prevFail>>

\* a call on the wrapper held, through &self: the wrapper is only read
Call(op, val) ==
    /\ Holding
    /\ nOps < MaxOps
    /\ out' = [op |-> op, val |-> val]
    /\ nOps' = nOps + 1
    /\ UNCHANGED <<res, given, built, cursor, steps, calls, prevFail>>

CallDescription == Call("description", description(res.val))

CallOriginal == Call("original", original(res.val))

CallToString == Call("to_string", to_string(res.val))

CallSource == Call("source", source(res.val))

\* one step of a walk down the source chain: e = e.source()
WalkStep ==
    /\ cursor.tag = "Some"
    /\ cursor' = source(cursor.val)
    /\ steps' = steps + 1
    /\ UNCHANGED <<res, given, built, out, nOps, calls, prevFail>>

Next ==
    \/ \E d \in Descriptions, b \in BaseErrors : MapErrDescribe(d, Err(b))
    \/ \E d \in Descriptions, v \in OkValues : MapErrDescribe(d, Ok(v))
    \/ \E d \in Descriptions : Redescribe(d)
    \/ \E site \in CallSites, rt \in Runtimes : Describing(site, rt)
    \/ CallDescription
    \/ CallOriginal
    \/ CallToString
    \/ CallSource
    \/ WalkStep

Spec == Init /\ [][Next]_vars

(***************************************************************************)
(* Properties                                                              *)
(***************************************************************************)
\* the description and the original the wrapper held was built from
GivenDescription == given.d.chars
GivenOriginal == given.input.val

\* C1: the rendering of the wrapper built from (d, o) is d, then a colon
\* and a blank, then the rendering of o, and nothing else.
C1_FormattingLaw ==
    (Holding /\ out.op = "to_string") =>
        /\ out.val = GivenDescription \o <<":", " ">> \o to_string(GivenOriginal)
        /\ Len(out.val) = Len(GivenDescription) + 2
                            + Len(to_string(GivenOriginal))
        /\ GivenOriginal.tag = "Leaf" =>
              out.val = GivenDescription \o <<":", " ">> \o GivenOriginal.msg

\* the test simple_error: "Produced in test: Inner error"
C1_Witness ==
    /\ Holding
    /\ given.how = "describe"
    /\ out.op = "to_string"
    /\ out.val = ProducedInTest \o <<":", " ">> \o InnerError

\* C2: the closure of describe(d) applied to o yields the wrapper whose
\* description() is the text of d, literal or owned, and whose original()
\* is o.
C2_ConstructionRoundTrip ==
    (given.how = "describe" /\ given.input.tag = "Err") =>
        /\ res = Err([tag |-> "Described", description |-> given.d.chars,
                      original |-> given.input.val])
        /\ out.op = "description" => out.val = given.d.chars
        /\ out.op = "original" => out.val = given.input.val

C2_Witness ==
    /\ given.how = "describe"
    /\ given.d.kind = "String"
    /\ given.input = Err(Chained)
    /\ out.op = "original"
    /\ out.val = Chained

\* C3 as claimed: a failing describing!(expr) carries the wrapper whose
\* description is the text of expr exactly as written at the call site.
C3_VerbatimText ==
    (given.how = "describing" /\ given.input.tag = "Err") =>
        /\ Holding
        /\ description(res.val) = given.site.text
        /\ original(res.val) = given.input.val

\* the expression of a call site written with no blank between its tokens
Canonical(site) ==
    IF site.callee = "returns_err" THEN ReturnsErrText ELSE SyncAllText

\* C3 as amended: a failing describing!(expr) carries the wrapper whose
\* description is expr printed back from its tokens, which is the text as
\* written when that has no blanks between tokens (returns_err()), and
\* whose original is the error of expr; it renders as that description,
\* ": " and the rendering of the error.
C3_StringifiedText ==
    (given.how = "describing" /\ given.input.tag = "Err") =>
        /\ Holding
        /\ description(res.val) = Canonical(given.site)
        /\ given.site.text = Canonical(given.site) =>
              description(res.val) = given.site.text
        /\ original(res.val) = given.input.val
        /\ to_string(res.val) =
              Canonical(given.site) \o <<":", " ">> \o to_string(given.input.val)

\* the test macro_err: "returns_err(): Inner error"
C3_Witness ==
    /\ given.how = "describing"
    /\ given.site.id = "macro_err"
    /\ Holding
    /\ out.op = "to_string"
    /\ out.val = ReturnsErrText \o <<":", " ">> \o InnerError

\* C4: the source of the wrapper built from (d, o) is present and is o
\* itself, the value original() returns: not o's own source, not the
\* wrapper.
C4_CauseIsOriginal ==
    (Holding /\ out.op = "source") =>
        /\ out.val # None
        /\ out.val = Some(GivenOriginal)
        /\ out.val = Some(original(res.val))
        /\ out.val # source(GivenOriginal)
        /\ out.val # Some(res.val)

\* the original has a source of its own, and the wrapper does not report it
C4_Witness ==
    /\ Holding
    /\ out.op = "source"
    /\ GivenOriginal = Chained
    /\ source(GivenOriginal) = Some(IoOther)

\* C5: the wrapping step is a success exactly when the wrapped result is,
\* and then carries the same success value; it adds no failure of its own.
C5_SuccessPassThrough ==
    given.how # "none" =>
        /\ res.tag = "Ok" <=> given.input.tag = "Ok"
        /\ given.input.tag = "Ok" => (res = given.input /\ built = << >>)
        /\ res.tag = "Err" => res.val.original = given.input.val

C5_Witness ==
    /\ given.how = "describing"
    /\ given.rt = "good"
    /\ given.input = Ok("unit")
    /\ res = Ok("unit")

\* C6: one execution of describing!(expr) runs expr exactly once, whether
\* it succeeds or fails.
C6_EvaluatedOnce ==
    given.how = "describing" => calls = 1

\* a device that fails on its first use only: run once, the failure stays
C6_Witness ==
    /\ given.how = "describing"
    /\ given.rt = "flaky"
    /\ given.site.callee = "sync_all"
    /\ res.tag = "Err"
    /\ calls = 1

\* C7: two failing executions of describing! over the same written text
\* carry the same description, whatever the call site, the run-time values
\* and the errors were.
C7_DescriptionIgnoresRuntime ==
    (/\ given.how = "describing"
     /\ Holding
     /\ prevFail.tag = "Some"
     /\ prevFail.val.text = given.site.text) =>
        description(res.val) = prevFail.val.description

\* same text at two call sites, different run-time values, different errors
C7_Witness ==
    /\ given.how = "describing"
    /\ Holding
    /\ prevFail.tag = "Some"
    /\ prevFail.val.text = given.site.text
    /\ prevFail.val.id # given.site.id
    /\ prevFail.val.rt # given.rt
    /\ prevFail.val.original # original(res.val)

\* C8: no call on a wrapper changes it: after every call the description
\* and the original are those it was built from, and a call repeated
\* returns what it returned before.
C8_Immutable ==
    [][(Holding /\ (nOps' = nOps + 1 \/ steps' = steps + 1)) =>
          /\ res' = res
          /\ description(res'.val) = GivenDescription
          /\ original(res'.val) = GivenOriginal
          /\ (nOps' = nOps + 1 /\ out'.op = out.op) => out'.val = out.val
      ]_vars

\* description() called twice on one instance
C8_Witness ==
    /\ Holding
    /\ nOps >= 2
    /\ out.op = "description"
    /\ out.val = GivenDescription

\* C9: describe(d) applied to o rejects no description: for every d, the
\* empty one too, the result is the wrapper; for d = "" description() is
\* "" and the rendering is ": " followed by the rendering of o.
C9_TotalConstruction ==
    (given.how = "describe" /\ given.input.tag = "Err") =>
        /\ Holding
        /\ description(res.val) = given.d.chars
        /\ given.d.chars = Empty =>
              /\ description(res.val) = << >>
              /\ to_string(res.val) = <<":", " ">> \o to_string(given.input.val)
              /\ out.op = "to_string" =>
                    out.val = <<":", " ">> \o to_string(given.input.val)

C9_Witness ==
    /\ given.how = "describe"
    /\ given.d = Lit(Empty)
    /\ given.input = Err(IoOther)
    /\ out.op = "to_string"
    /\ out.val = <<":", " ">> \o InnerError

RECURSIVE NthCause(_, _)
\* where n steps of source() from a leaf arrive
NthCause(e, n) ==
    IF n = 0 THEN Some(e)
    ELSE IF e.cause.tag = "None" THEN None
    ELSE NthCause(e.cause.val, n - 1)

\* the values a walk from the outermost wrapper stands on, in order
WalkOrder ==
    [i \in 1..(Len(built) + ChainLen(built[1])) |->
        IF i <= Len(built) THEN built[Len(built) + 1 - i]
        ELSE NthCause(built[1], i - Len(built)).val]

\* C10: with k >= 1 wrappers built around a base error b, the walk by
\* source() from the outermost visits the wrappers in reverse order of
\* construction, stands on b after exactly k steps, goes on into b's own
\* chain, never stands twice on one value and ends when b's chain does.
C10_NestedChainWalk ==
    Holding =>
        LET k == Len(built) - 1
            b == built[1]
        IN  /\ k >= 1
            /\ k = Depth(res.val)
            /\ b.tag = "Leaf"
            /\ steps <= k + ChainLen(b) + 1
            /\ steps <= k => cursor = Some(built[k + 1 - steps])
            /\ steps = k => cursor = Some(b)
            /\ steps > k => cursor = NthCause(b, steps - k)
            /\ cursor = None <=> steps = k + ChainLen(b) + 1
            /\ \A i, j \in DOMAIN WalkOrder :
                  i # j => WalkOrder[i] # WalkOrder[j]

\* two wrappers around an error with a source: the walk has passed both
\* wrappers and the base and stands on the base's source
C10_Witness ==
    /\ Holding
    /\ Len(built) = 3
    /\ built[1] = Chained
    /\ steps = 3
    /\ cursor = Some(IoOther)

====
